---------------------------- MODULE Spec2Model ----------------------------
(***************************************************************************)
(* Auckland Transport real-time departure boards.                          *)
(*                                                                         *)
(*   ATRTDB.py          the unified controller: find_stop_ids,             *)
(*                      get_departures, render_console_board,              *)
(*                      initialize_locations, main                         *)
(*   RTDB_Britomart.py  the stand-alone bus board (a module-level loop)    *)
(*                                                                         *)
(* Instants are whole seconds.  Feed timestamps are POSIX seconds; the     *)
(* program compares naive local datetimes, so FromTimestamp shifts a       *)
(* timestamp by the local UTC offset and "now" is a local reading too.     *)
(***************************************************************************)
EXTENDS Integers, Sequences, FiniteSets, TLC

VARIABLES
    pc,             \* position of the program / of the pass
    simulation,     \* SIMULATION_MODE (API_KEY left at its placeholder)
    location,       \* the Location handed to get_departures
    resp,           \* the realtime HTTP exchange of the pass (input)
    clock,          \* POSIX time at which the pass reads datetime.now() (input)
    seed,           \* state of the random module (input, simulation only)
    now,            \* the local 'now' read by the pass (None before it is read)
    emitted,        \* deps as appended by the extraction loop, before the sort
    origins,        \* origins[n] = <<entity, stop-time-update>> index of emitted[n]
    order,          \* order[i] = position in emitted of the i-th returned entry
    departures,     \* the list get_departures returned
    raised,         \* TRUE iff an exception left get_departures
    outcome,        \* what happened in the pass: ok, simulated, fetch_failed, ...
    console,        \* the diagnostic get_departures printed ("" if none)
    board,          \* rows drawn by render_console_board / print_board
    locations,      \* the module-level LOCATIONS list (main program)
    init_idx,       \* next location initialize_locations will look up
    location_index, \* main loop: index into valid_locations
    stop_ids,       \* RTDB_Britomart.py / RTDB_downtown.py: the module-level stop_ids
    script_deps     \* RTDB_downtown.py: the list its get_departures returned

vars == <<pc, simulation, location, resp, clock, seed, now, emitted, origins,
          order, departures, raised, outcome, console, board, locations,
          init_idx, location_index, stop_ids, script_deps>>

\* the value of 'now' in a pass that never read the clock
None == 0 - 1

-----------------------------------------------------------------------------
(* Configuration: ATRTDB.py lines 19-72                                    *)

MAX_DEPARTURES == 10

Location(name, search_term, mode, route_prefixes) ==
    [name |-> name, search_term |-> search_term, mode |-> mode,
     route_prefixes |-> route_prefixes, stop_ids |-> << >>]

LOCATIONS ==
    << Location("Waitemata Station", "Waitemata", "train", << >>),
       Location("Britomart Bus Hub", "Britomart", "bus",
                <<"64-", "65-", "66-", "67-", "68-", "18-", "20-", "22-",
                  "24-", "25-", "27-", "30-", "70-", "75-", "295-", "298-",
                  "309-", "321-", "744-", "747-", "751-", "755-", "781-",
                  "782-">>),
       Location("Downtown Ferry Terminal", "Downtown Ferry", "ferry",
                <<"BAYS-", "BIRK-", "KPHS-", "KPHM-", "PINE-", "RAK-",
                  "RANG-", "TIRI-", "WSTH-", "MTIA-", "HMB-">>) >>

-----------------------------------------------------------------------------
(* Python primitives used by the passes                                    *)

Min(a, b) == IF a < b THEN a ELSE b

\* s[:n]
Take(s, n) == SubSeq(s, 1, Min(n, Len(s)))

\* x in list
InList(x, list) == \E i \in 1..Len(list) : list[i] = x

\* str.startswith
StartsWith(s, p) == Len(p) <= Len(s) /\ SubSeq(s, 1, Len(p)) = p

\* int(x / d) for d > 0: truncation toward zero
TruncDiv(x, d) == IF x >= 0 THEN x \div d ELSE -((-x) \div d)

\* x // d for d > 0: floor division
FloorDiv(x, d) == x \div d

\* the zone of the host: naive local datetimes are POSIX seconds plus this
UtcOffset == 12 * 3600

\* datetime.fromtimestamp(ts), as seconds on the local wall clock
FromTimestamp(ts) == ts + UtcOffset


-----------------------------------------------------------------------------
(* The random module (simulation mode).  A stream is fixed by its seed;    *)
(* the k-th call of the pass reads the k-th raw number of the stream.      *)

Raw(sd, k) == (sd * 389 + k * (sd * 7 + 131) + k * k * 17) % 1009

\* random.randint(lo, hi), as the k-th call
RandInt(sd, k, lo, hi) == lo + (Raw(sd, k) % (hi - lo + 1))

\* random.choice(list), as the k-th call
RandChoice(sd, k, list) == list[1 + (Raw(sd, k) % Len(list))]

MOCK_HEADSIGNS == <<"Glen Innes", "Newmarket", "Onehunga", "Devonport", "Waiheke">>

-----------------------------------------------------------------------------
(* get_departures: ATRTDB.py lines 111-179                                 *)

\* lines 147-149 without the filter (the stand-alone bus board's version)
RoutePrefixUnfiltered(route_prefixes, route_id) == TRUE
\* lines 147-149: the route filter of a trip
RoutePrefixAllowed(route_prefixes, route_id) ==
    \/ route_prefixes = << >>
    \/ \E i \in 1..Len(route_prefixes) : StartsWith(route_id, route_prefixes[i])

\* line 152: the stop filter of a stop-time update
StopMatches(ids, stu) ==
    InList(stu.stop_id, ids) /\ stu.has_departure

\* line 156 with the comparison a slip would write
IsFutureOrNow(dep_time, t) == dep_time >= t
\* line 156: only future departures
IsFuture(dep_time, t) == dep_time > t

\* lines 161-162
MinsUntil(dep_time, t) ==
    LET m == TruncDiv(dep_time - t, 60)
    IN  IF m < 0 THEN 0 ELSE m

\* line 157
DelayOf(stu) == IF stu.has_delay THEN stu.delay ELSE 0

\* line 158: trip.trip_headsign or 'N/A'
HeadsignOf(entity) ==
    IF entity.trip_headsign # "" THEN entity.trip_headsign ELSE "N/A"

\* lines 164-171
MakeEntry(entity, stu, t) ==
    [route      |-> entity.route_id,
     headsign   |-> HeadsignOf(entity),
     time       |-> FromTimestamp(stu.time),
     mins_until |-> MinsUntil(FromTimestamp(stu.time), t),
     delay      |-> DelayOf(stu),
     stop_id    |-> stu.stop_id]

\* lines 141 and 151: the order in which the two loops visit the feed
RECURSIVE EventsFrom(_, _)
EventsFrom(feed, e) ==
    IF e > Len(feed) THEN << >>
    ELSE [s \in 1..Len(feed[e].stop_time_update) |-> <<e, s>>]
            \o EventsFrom(feed, e + 1)

\* lines 142-156: does the event at origin o reach deps.append
Qualifies(loc, feed, o, t) ==
    LET entity == feed[o[1]]
        stu    == entity.stop_time_update[o[2]]
    IN  /\ entity.has_trip_update
        /\ RoutePrefixAllowed(loc.route_prefixes, entity.route_id)
        /\ StopMatches(loc.stop_ids, stu)
        /\ IsFuture(FromTimestamp(stu.time), t)

\* lines 139-171: the origins of the entries appended to deps, in order
ExtractOrigins(loc, feed, t) ==
    SelectSeq(EventsFrom(feed, 1), LAMBDA o : Qualifies(loc, feed, o, t))

\* line 174 with a comparison that lets a later equal key overtake
KeyPrecedesTiesReversed(a, b) == a <= b
\* line 174: the comparison list.sort makes between two keys
KeyPrecedes(a, b) == a < b

\* line 174: insert index x into the sorted index list L, behind every
\* element whose key does not exceed its own (list.sort is stable)
RECURSIVE InsertByTime(_, _, _)
InsertByTime(L, x, deps) ==
    IF L = << >> THEN <<x>>
    ELSE IF KeyPrecedes(deps[x].time, deps[Head(L)].time)
         THEN <<x>> \o L
         ELSE <<Head(L)>> \o InsertByTime(Tail(L), x, deps)

\* line 174: deps.sort(key=lambda x: x['time']), as positions in deps
RECURSIVE SortedOrder(_, _)
SortedOrder(deps, n) ==
    IF n = 0 THEN << >>
    ELSE InsertByTime(SortedOrder(deps, n - 1), n, deps)

\* lines 174-175 with the two statements swapped: slice, then sort
RankSliceFirst(deps, maxCount) ==
    SortedOrder(Take(deps, maxCount), Min(maxCount, Len(deps)))
\* lines 174-175: sort, then deps[:maxCount]; positions in deps
Rank(deps, maxCount) ==
    Take(SortedOrder(deps, Len(deps)), maxCount)

\* lines 117-126: the i-th mock departure (i = 0 .. MAX_DEPARTURES - 1);
\* an iteration makes five calls of the random module when the location
\* has route prefixes, four when it has none
MockEntry(loc, sd, t, i) ==
    LET n    == IF loc.route_prefixes = << >> THEN 4 ELSE 5
        base == i * n
        r    == IF loc.route_prefixes = << >> THEN 0 ELSE 1
    IN  [route      |-> IF loc.route_prefixes # << >>
                        THEN RandChoice(sd, base + 2, loc.route_prefixes)
                        ELSE "MOCK",
         headsign   |-> RandChoice(sd, base + 2 + r, MOCK_HEADSIGNS),
         time       |-> t + 60 * RandInt(sd, base + 1, 1, 60),
         mins_until |-> RandInt(sd, base + 3 + r, 1, 60),
         delay      |-> RandInt(sd, base + 4 + r, -120, 300),
         stop_id    |-> "mock"]

\* The result of one call of get_departures.
PassResult(t, deps, orig, ord, exc, what, printed) ==
    [now |-> t, emitted |-> deps, origins |-> orig, order |-> ord,
     departures |-> [i \in 1..Len(ord) |-> deps[ord[i]]],
     raised |-> exc, outcome |-> what, console |-> printed]

\* lines 113-127
SimulatedPass(loc, ck, sd) ==
    LET t    == FromTimestamp(ck)
        mock == [i \in 1..MAX_DEPARTURES |-> MockEntry(loc, sd, t, i - 1)]
    IN  PassResult(t, mock, << >>, [i \in 1..MAX_DEPARTURES |-> i], FALSE,
                   "simulated", "simulating")

\* lines 129-179
FeedPass(loc, rsp, ck) ==
    IF rsp.raises
    THEN PassResult(None, << >>, << >>, << >>, FALSE, "fetch_failed", "error_fetching")
    ELSE IF rsp.status_code # 200
    THEN PassResult(None, << >>, << >>, << >>, FALSE, "fetch_failed", "realtime_failed")
    ELSE IF ~rsp.decodable
    THEN PassResult(None, << >>, << >>, << >>, FALSE, "decode_failed", "error_fetching")
    ELSE LET t    == FromTimestamp(ck)
             orig == ExtractOrigins(loc, rsp.feed, t)
             deps == [n \in 1..Len(orig) |->
                        MakeEntry(rsp.feed[orig[n][1]],
                                  rsp.feed[orig[n][1]].stop_time_update[orig[n][2]], t)]
         IN  PassResult(t, deps, orig, Rank(deps, MAX_DEPARTURES), FALSE, "ok", "")

\* lines 111-179
GetDeparturesResult(loc, sim, rsp, ck, sd) ==
    IF sim THEN SimulatedPass(loc, ck, sd) ELSE FeedPass(loc, rsp, ck)

-----------------------------------------------------------------------------
(* render_console_board: ATRTDB.py lines 183-244                           *)

\* lines 183-190
get_mode_icon(mode) ==
    CASE mode = "train" -> "train-icon"
      [] mode = "bus"   -> "bus-icon"
      [] mode = "ferry" -> "ferry-icon"
      [] OTHER          -> "stop-icon"

\* strftime's two-digit field
Pad2(n) == IF n < 10 THEN "0" \o ToString(n) ELSE ToString(n)

\* lines 200 and 216: strftime('%H:%M') of a local datetime
StrfHM(t) == Pad2((t \div 3600) % 24) \o ":" \o Pad2((t \div 60) % 60)

\* lines 219-227
MinsStr(mins) ==
    IF mins = 0 THEN "NOW"
    ELSE IF mins < 60 THEN ToString(mins) \o "m"
    ELSE ToString(mins \div 60) \o "h" \o ToString(mins % 60) \o "m"

\* line 230, with the division a slip would write: int(delay / 60)
DelayMinsTruncated(delay) == TruncDiv(delay, 60)
\* line 230: delay_mins = dep['delay'] // 60
DelayMins(delay) == FloorDiv(delay, 60)

\* lines 231-239: the branch taken
DelayClass(delay) ==
    IF DelayMins(delay) > 2 THEN "LATE"
    ELSE IF DelayMins(delay) < -2 THEN "EARLY"
    ELSE "ON_TIME"

\* lines 231-239: status and marker (colour codes left out)
DelayStatus(delay) ==
    CASE DelayClass(delay) = "LATE" ->
            [class |-> "LATE", marker |-> "warning",
             text |-> ToString(DelayMins(delay)) \o "m LATE"]
      [] DelayClass(delay) = "EARLY" ->
            [class |-> "EARLY", marker |-> "lightning",
             text |-> ToString(-DelayMins(delay)) \o "m EARLY"]
      [] OTHER ->
            [class |-> "ON_TIME", marker |-> "check", text |-> "ON TIME"]

\* lines 213-241: one row of the board
BoardRow(dep) ==
    [route    |-> Take(dep.route, 7),
     headsign |-> Take(dep.headsign, 22),
     time_str |-> StrfHM(dep.time),
     mins_str |-> MinsStr(dep.mins_until),
     status   |-> DelayStatus(dep.delay)]

\* lines 194-244: what the terminal shows after the call
RenderConsoleBoard(loc, deps) ==
    [icon   |-> get_mode_icon(loc.mode),
     name   |-> loc.name,
     notice |-> IF deps = << >> THEN "No departures found" ELSE "",
     rows   |-> [i \in 1..Len(deps) |-> BoardRow(deps[i])]]

NoBoard == [icon |-> "", name |-> "", notice |-> "", rows |-> << >>]

-----------------------------------------------------------------------------
(* Inputs: feed snapshots, HTTP exchanges, clocks, seeds                   *)

MaxSeed == 5
LongExtra == 2
MaxAbsDelay == 200

\* the POSIX second around which the feeds are built
T0 == 20 * 60

Clocks == {T0, T0 + 60}
Seeds == 0..MaxSeed

Stu(stop, t) ==
    [stop_id |-> stop, has_departure |-> TRUE, time |-> t,
     has_delay |-> FALSE, delay |-> 0]

StuDelayed(stop, t, d) ==
    [stop_id |-> stop, has_departure |-> TRUE, time |-> t,
     has_delay |-> TRUE, delay |-> d]

\* a stop-time update that carries an arrival only
StuNoDeparture(stop) ==
    [stop_id |-> stop, has_departure |-> FALSE, time |-> 0,
     has_delay |-> FALSE, delay |-> 0]

Trip(route, headsign, stus) ==
    [has_trip_update |-> TRUE, route_id |-> route, trip_headsign |-> headsign,
     stop_time_update |-> stus]

\* an entity that carries a vehicle position or an alert
NoTripUpdate ==
    [has_trip_update |-> FALSE, route_id |-> "", trip_headsign |-> "",
     stop_time_update |-> << >>]

FeedTimes == {T0 - 60, T0, T0 + 59, T0 + 61, T0 + 600}
Routes == {"64-X", "65-X", "BAYS-1", "EAST-201"}
Stops == {"A", "B", "C"}

SingleStus ==
    {Stu(st, t) : st \in Stops, t \in FeedTimes}
        \cup {StuDelayed(st, t, 200) : st \in Stops, t \in FeedTimes}
        \cup {StuNoDeparture("A")}

\* one trip, one stop-time update
SingleFeeds ==
    {<<Trip(r, h, <<s>>)>> : r \in Routes, h \in {"", "Britomart"}, s \in SingleStus}

PairStus == {Stu(st, t) : st \in {"A", "B"}, t \in {T0 + 59, T0 + 61, T0 + 600}}

\* two stop-time updates, in one trip or in two
PairFeeds ==
    {<<Trip("64-X", "Britomart", <<a, b>>)>> : a \in PairStus, b \in PairStus}
        \cup {<<Trip(r1, "Britomart", <<a>>), Trip(r2, "", <<b>>)>> :
                r1 \in {"64-X", "65-X"}, r2 \in {"64-X", "65-X"},
                a \in PairStus, b \in PairStus}

TripleStus == {Stu(st, t) : st \in {"A", "B"}, t \in {T0 + 61, T0 + 600}}

TripleFeeds ==
    {<<Trip("64-X", "Britomart", <<a, b>>), NoTripUpdate, Trip("BAYS-1", "", <<c>>)>> :
        a \in TripleStus, b \in TripleStus, c \in TripleStus}

\* feeds with more qualifying departures than a board keeps
LongLen == MAX_DEPARTURES + LongExtra

LongTime(p, i) ==
    CASE p = 1 -> T0 + 60 * (LongLen + 2 - i)       \* latest first
      [] p = 2 -> T0 + 120                          \* all at one instant
      [] p = 3 -> T0 + 60 * (2 + (i % 2))           \* two instants, alternating
      [] OTHER -> T0 + 60 * (2 + ((i * 2) % 3))     \* three instants

LongStu(p, i) ==
    StuDelayed(IF i % 2 = 1 THEN "A" ELSE "B", LongTime(p, i), i)

LongFeeds ==
    {<<Trip("64-X", "Britomart", [i \in 1..LongLen |-> LongStu(p, i)])>> : p \in 1..4}
        \cup {[i \in 1..LongLen |-> Trip("64-X", "Britomart", <<LongStu(p, i)>>)] :
                p \in 1..4}

DelayFeeds ==
    {<<Trip("64-X", "Britomart", <<StuDelayed("A", T0 + 600, d)>>)>> :
        d \in (-MaxAbsDelay)..MaxAbsDelay}

Feeds ==
    {<< >>, <<NoTripUpdate>>} \cup SingleFeeds \cup PairFeeds \cup TripleFeeds
        \cup LongFeeds \cup DelayFeeds

\* requests.get raised (timeout, connection refused)
ConnectionFailed ==
    [raises |-> TRUE, status_code |-> 0, decodable |-> FALSE, feed |-> << >>]

HttpError(code) ==
    [raises |-> FALSE, status_code |-> code, decodable |-> FALSE, feed |-> << >>]

\* a 200 whose body ParseFromString rejects
Malformed ==
    [raises |-> FALSE, status_code |-> 200, decodable |-> FALSE, feed |-> << >>]

Decoded(feed) ==
    [raises |-> FALSE, status_code |-> 200, decodable |-> TRUE, feed |-> feed]

Failures == {ConnectionFailed, HttpError(500), Malformed}

Responses == Failures \cup {Decoded(f) : f \in Feeds}

\* nothing is requested in simulation mode
NoRequest == HttpError(0)

WithStops(loc, ids) == [loc EXCEPT !.stop_ids = ids]

\* line 88: the stops find_stop_ids makes up in simulation mode
MockStops == <<"mock_0", "mock_1", "mock_2">>

ResolvedStopLists == {<< >>, <<"A">>, <<"A", "B">>}

\* the locations a pass is run for
PassLocations(sim) ==
    IF sim
    THEN {WithStops(LOCATIONS[i], MockStops) : i \in 1..Len(LOCATIONS)}
    ELSE {WithStops(LOCATIONS[i], ids) : i \in 1..Len(LOCATIONS), ids \in ResolvedStopLists}
            \cup {WithStops(Location("Albert Street", "Albert", "bus", <<"64-">>),
                            <<"A", "B">>)}

-----------------------------------------------------------------------------
(* One pass: get_departures, then render_console_board                     *)

Init ==
    /\ pc = "ready"
    /\ simulation \in BOOLEAN
    /\ location \in PassLocations(simulation)
    /\ clock \in Clocks
    /\ IF simulation
       THEN resp = NoRequest /\ seed \in Seeds
       ELSE resp \in Responses /\ seed = 0
    /\ now = None
    /\ emitted = << >>
    /\ origins = << >>
    /\ order = << >>
    /\ departures = << >>
    /\ raised = FALSE
    /\ outcome = "none"
    /\ console = ""
    /\ board = NoBoard
    /\ locations = LOCATIONS
    /\ init_idx = 0
    /\ location_index = 0
    /\ stop_ids = << >>
    /\ script_deps = << >>

GetDepartures ==
    /\ pc = "ready"
    /\ LET r == GetDeparturesResult(location, simulation, resp, clock, seed)
       IN  /\ now' = r.now
           /\ emitted' = r.emitted
           /\ origins' = r.origins
           /\ order' = r.order
           /\ departures' = r.departures
           /\ raised' = r.raised
           /\ outcome' = r.outcome
           /\ console' = r.console
    /\ pc' = "returned"
    /\ UNCHANGED <<simulation, location, resp, clock, seed, board, locations,
                   init_idx, location_index, stop_ids, script_deps>>

Render ==
    /\ pc = "returned"
    /\ board' = RenderConsoleBoard(location, departures)
    /\ pc' = "rendered"
    /\ UNCHANGED <<simulation, location, resp, clock, seed, now, emitted, origins,
                   order, departures, raised, outcome, console, locations,
                   init_idx, location_index, stop_ids, script_deps>>

Next == GetDepartures \/ Render

Spec == Init /\ [][Next]_vars

-----------------------------------------------------------------------------
(* Properties of one pass                                                  *)

Returned == pc \in {"returned", "rendered"}

\* the feed events, in feed order, and the parts of the event at origin o
FeedEvents == EventsFrom(resp.feed, 1)
EntityAt(o) == resp.feed[o[1]]
StuAt(o) == resp.feed[o[1]].stop_time_update[o[2]]
IsEmitted(o) == \E n \in 1..Len(origins) : origins[n] = o

\* C1: every entry get_departures returns departs strictly after the 'now'
\* of its pass; a stop-time event whose departure instant is at or before
\* that instant (on the feed's own clock) is never among the emitted ones.
C1_OnlyFutureDepartures ==
    (Returned /\ now # None) =>
        /\ \A i \in 1..Len(departures) : departures[i].time > now
        /\ \A n \in 1..Len(origins) : StuAt(origins[n]).time > clock

C1_Witness ==
    /\ pc = "returned"
    /\ outcome = "ok"
    /\ departures # << >>
    /\ \E o \in {FeedEvents[k] : k \in 1..Len(FeedEvents)} :
          /\ StuAt(o).has_departure
          /\ StuAt(o).time <= clock
          /\ StuAt(o).stop_id = departures[1].stop_id
          /\ ~IsEmitted(o)

\* C2: an event yields an entry only if its trip's route passes the
\* location's prefix allowlist (empty, or one prefix starts the route id) and
\* its stop is one of the location's resolved stops.  With stops {A, B} and
\* allowlist ['64-']: 64-X at A is accepted, 65-X at A and 64-X at C are
\* rejected.  A location without stops gets no entries.
C2_FilterBothNecessary ==
    (Returned /\ outcome = "ok") =>
        /\ \A n \in 1..Len(origins) :
              LET route == EntityAt(origins[n]).route_id
                  stop  == StuAt(origins[n]).stop_id
                  pre   == location.route_prefixes
              IN  /\ \/ Len(pre) = 0
                     \/ \E i \in 1..Len(pre) :
                           /\ Len(pre[i]) <= Len(route)
                           /\ \A c \in 1..Len(pre[i]) :
                                 SubSeq(route, c, c) = SubSeq(pre[i], c, c)
                  /\ \E i \in 1..Len(location.stop_ids) : location.stop_ids[i] = stop
                  /\ emitted[n].route = route
                  /\ emitted[n].stop_id = stop
        /\ location.stop_ids = << >> => departures = << >>
        /\ (location.route_prefixes = <<"64-">> /\ location.stop_ids = <<"A", "B">>) =>
              \A k \in 1..Len(FeedEvents) :
                 LET o == FeedEvents[k]
                 IN  (EntityAt(o).has_trip_update /\ StuAt(o).has_departure
                        /\ StuAt(o).time > clock) =>
                       /\ (EntityAt(o).route_id = "64-X" /\ StuAt(o).stop_id = "A")
                              => IsEmitted(o)
                       /\ (EntityAt(o).route_id = "65-X" /\ StuAt(o).stop_id = "A")
                              => ~IsEmitted(o)
                       /\ (EntityAt(o).route_id = "64-X" /\ StuAt(o).stop_id = "C")
                              => ~IsEmitted(o)

C2_Witness ==
    /\ pc = "returned"
    /\ outcome = "ok"
    /\ location.route_prefixes = <<"64-">>
    /\ location.stop_ids = <<"A", "B">>
    /\ Len(resp.feed) = 2
    /\ resp.feed[1].route_id = "64-X"
    /\ resp.feed[2].route_id = "65-X"
    /\ resp.feed[1].stop_time_update[1].stop_id = "A"
    /\ resp.feed[2].stop_time_update[1].stop_id = "A"
    /\ resp.feed[2].stop_time_update[1].time > clock
    /\ origins = << <<1, 1>> >>

\* C3: the returned list is never longer than the maximum and is the prefix
\* of that length of the full sort of the candidates; for every count k the
\* ranking to k is the first k elements of the ranking to all.
C3_RankIsPrefixOfFullSort ==
    Returned =>
        /\ Len(departures) <= MAX_DEPARTURES
        /\ outcome = "ok" =>
              LET full == Rank(emitted, Len(emitted))
              IN  /\ Len(full) = Len(emitted)
                  /\ order = Take(full, MAX_DEPARTURES)
                  /\ departures = [i \in 1..Len(order) |-> emitted[full[i]]]
                  /\ \A k \in 0..(Len(emitted) + 1) :
                        /\ Len(Rank(emitted, k)) <= k
                        /\ Rank(emitted, k) = Take(full, k)

C3_Witness ==
    /\ pc = "returned"
    /\ outcome = "ok"
    /\ Len(emitted) > MAX_DEPARTURES
    /\ Len(departures) = MAX_DEPARTURES
    /\ emitted[1].time > emitted[Len(emitted)].time
    /\ departures[1] = emitted[Len(emitted)]

\* pair a comes before pair b, pairs compared first then second component
LexLess(a, b) == a[1] < b[1] \/ (a[1] = b[1] /\ a[2] < b[2])

\* C4: the returned list is in non-decreasing order of departure instant,
\* and entries with the same instant keep the order in which the extraction
\* emitted them, which is the order of the feed: entity, then stop-time
\* update within the trip.
C4_SortedAndStable ==
    (Returned /\ outcome = "ok") =>
        /\ \A m, n \in 1..Len(origins) : m < n => LexLess(origins[m], origins[n])
        /\ \A i \in 1..Len(order) : departures[i] = emitted[order[i]]
        /\ \A i, j \in 1..Len(order) :
              i < j =>
                 /\ departures[i].time <= departures[j].time
                 /\ departures[i].time = departures[j].time => order[i] < order[j]

C4_Witness ==
    /\ pc = "returned"
    /\ outcome = "ok"
    /\ \E i, j \in 1..Len(departures) :
          /\ i < j
          /\ departures[i].time = departures[j].time
          /\ departures[i] # departures[j]
    /\ \E i \in 1..Len(order) : order[i] # i

\* C5: every returned entry's minutes-until-departure is the whole number of
\* minutes, never negative, between the pass's 'now' and the entry's own
\* departure instant.
C5_MinutesMatchInstant ==
    Returned =>
        \A i \in 1..Len(departures) :
           /\ departures[i].mins_until >= 0
           /\ departures[i].mins_until = (departures[i].time - now) \div 60

CallerView == [value |-> departures, raised |-> raised]
\* what it has in hand when the feed was read and no trip matched
NoMatchView == [value |-> << >>, raised |-> FALSE]

\* C7: a pass whose fetch or decode failed leaves the caller with something
\* other than what a pass without matching trips leaves; a payload of zero
\* entities gives an empty list and no error.
C7_FailureDistinguishable ==
    Returned =>
        /\ outcome \in {"fetch_failed", "decode_failed"} => CallerView # NoMatchView
        /\ (outcome = "ok" /\ resp.feed = << >>) => CallerView = NoMatchView

-----------------------------------------------------------------------------
(* Stop lookup and start-up: ATRTDB.py lines 84-110 and 248-279            *)

\* lines 99-104: the ids of the items whose location_type is 0
PlatformIds(data) ==
    LET keep == SelectSeq(data, LAMBDA item : item.location_type = 0)
    IN  [i \in 1..Len(keep) |-> keep[i].id]

\* lines 84-110
FindStopIds(loc, sim, lrsp) ==
    IF sim THEN MockStops
    ELSE IF lrsp.raises THEN << >>
    ELSE IF lrsp.status_code # 200 THEN << >>
    ELSE IF ~lrsp.json_ok THEN << >>
    ELSE IF ~lrsp.has_data THEN << >>
    ELSE PlatformIds(lrsp.data)

\* line 256 with stop_ids shared by every Location (a class attribute)
AssignStopIdsShared(locs, i, ids) ==
    [j \in 1..Len(locs) |-> [locs[j] EXCEPT !.stop_ids = ids]]
\* line 256: location.stop_ids = stop_ids
AssignStopIds(locs, i, ids) ==
    [locs EXCEPT ![i].stop_ids = ids]

\* line 276
ValidLocations(locs) == SelectSeq(locs, LAMBDA loc : loc.stop_ids # << >>)

Item(id, type) == [id |-> id, location_type |-> type]

LookupRaised ==
    [raises |-> TRUE, status_code |-> 0, json_ok |-> FALSE, has_data |-> FALSE,
     data |-> << >>]

LookupHttpError(code) ==
    [raises |-> FALSE, status_code |-> code, json_ok |-> FALSE, has_data |-> FALSE,
     data |-> << >>]

LookupBadJson ==
    [raises |-> FALSE, status_code |-> 200, json_ok |-> FALSE, has_data |-> FALSE,
     data |-> << >>]

LookupNoData ==
    [raises |-> FALSE, status_code |-> 200, json_ok |-> TRUE, has_data |-> FALSE,
     data |-> << >>]

LookupData(data) ==
    [raises |-> FALSE, status_code |-> 200, json_ok |-> TRUE, has_data |-> TRUE,
     data |-> data]

LookupFailures == {LookupRaised, LookupHttpError(401), LookupBadJson}

LookupResponses ==
    LookupFailures
        \cup {LookupNoData, LookupData(<< >>), LookupData(<<Item("P", 1)>>),
              LookupData(<<Item("P", 1), Item("A", 0)>>),
              LookupData(<<Item("A", 0), Item("P", 1), Item("B", 0)>>)}

\* the exchanges a running board meets
LoopFeeds ==
    {<< >>,
     <<Trip("64-X", "Britomart", <<Stu("A", T0 + 600), Stu("B", T0 + 61)>>)>>,
     <<Trip("EAST-201", "", <<StuDelayed("A", T0 + 61, 200)>>),
       Trip("BAYS-1", "Devonport", <<Stu("A", T0 + 61), Stu("C", T0 + 600)>>)>>}

LoopResponses == Failures \cup {Decoded(f) : f \in LoopFeeds}

\* the program main() of ATRTDB.py
MainInit ==
    /\ pc = "initializing"
    /\ simulation \in BOOLEAN
    /\ locations = LOCATIONS
    /\ init_idx = 1
    /\ location_index = 0
    /\ location = LOCATIONS[1]
    /\ resp = NoRequest
    /\ clock = T0
    /\ seed = 0
    /\ now = None
    /\ emitted = << >>
    /\ origins = << >>
    /\ order = << >>
    /\ departures = << >>
    /\ raised = FALSE
    /\ outcome = "none"
    /\ console = ""
    /\ board = NoBoard
    /\ stop_ids = << >>
    /\ script_deps = << >>

\* lines 253-261: one iteration of the loop of initialize_locations
InitializeLocation ==
    /\ pc = "initializing"
    /\ init_idx <= Len(locations)
    /\ \E lrsp \in LookupResponses :
          /\ simulation => lrsp = LookupNoData
          /\ locations' = AssignStopIds(locations, init_idx,
                                        FindStopIds(locations[init_idx], simulation, lrsp))
    /\ init_idx' = init_idx + 1
    /\ UNCHANGED <<pc, simulation, location, resp, clock, seed, now, emitted,
                   origins, order, departures, raised, outcome, console, board,
                   location_index, stop_ids, script_deps>>

\* lines 275-283: main() after initialize_locations has returned
CheckValidLocations ==
    /\ pc = "initializing"
    /\ init_idx > Len(locations)
    /\ pc' = IF ValidLocations(locations) = << >> THEN "exited" ELSE "running"
    /\ UNCHANGED <<simulation, location, resp, clock, seed, now, emitted, origins,
                   order, departures, raised, outcome, console, board, locations,
                   init_idx, location_index, stop_ids, script_deps>>

\* one turn of the main loop: a location's departures are fetched and drawn
MainLoopCycle ==
    /\ pc = "running"
    /\ \E i \in 1..Len(locations), rsp \in LoopResponses \cup {NoRequest},
          ck \in Clocks, sd \in Seeds :
          /\ IF simulation THEN rsp = NoRequest ELSE sd = 0
          /\ LET r == GetDeparturesResult(locations[i], simulation, rsp, ck, sd)
             IN  /\ location_index' = i - 1
                 /\ location' = locations[i]
                 /\ resp' = rsp
                 /\ clock' = ck
                 /\ seed' = sd
                 /\ now' = r.now
                 /\ emitted' = r.emitted
                 /\ origins' = r.origins
                 /\ order' = r.order
                 /\ departures' = r.departures
                 /\ raised' = r.raised
                 /\ outcome' = r.outcome
                 /\ console' = r.console
                 /\ board' = RenderConsoleBoard(locations[i], r.departures)
    /\ UNCHANGED <<pc, simulation, locations, init_idx, stop_ids, script_deps>>

MainNext == InitializeLocation \/ CheckValidLocations \/ MainLoopCycle

SpecMain == MainInit /\ [][MainNext]_vars

\* every location that initialize_locations has been through
Initialized(j) == j < init_idx

\* C9: a stop lookup that fails or matches nothing is not fatal: the
\* location stays configured, with an empty stop list, and the program goes
\* on to show boards instead of ending.
C9_LookupFailureNotFatal ==
    \A j \in 1..Len(LOCATIONS) :
       (Initialized(j) /\ locations[j].stop_ids = << >>) =>
          /\ Len(locations) = Len(LOCATIONS)
          /\ locations[j].name = LOCATIONS[j].name
          /\ pc # "exited"

\* C10: a location's stop list is written once, by its turn of
\* initialize_locations; before that turn the location is as constructed,
\* after it no step changes the location (stop list, route prefixes, name,
\* mode), whatever a pass fetches, returns or draws.
C10_LocationsFrozenAfterInit ==
    [][\A j \in 1..Len(LOCATIONS) :
          /\ Initialized(j) => locations'[j] = locations[j]
          /\ j > init_idx => locations'[j] = LOCATIONS[j]
          /\ WithStops(locations'[j], << >>) = LOCATIONS[j]
          /\ pc' = "running" => init_idx' = Len(LOCATIONS) + 1]_vars

C10_Witness ==
    /\ pc = "running"
    /\ locations[1].stop_ids = <<"A", "B">>
    /\ locations[2].stop_ids = << >>
    /\ locations[3].stop_ids = <<"A">>
    /\ location = locations[3]
    /\ outcome = "ok"
    /\ Len(departures) = 1
    /\ board.name = "Downtown Ferry Terminal"

-----------------------------------------------------------------------------
(* RTDB_Britomart.py: the stand-alone bus board                            *)

\* lines 25-42: the list returned, or the exception that leaves the call
BritomartFindBusStopIds(lrsp) ==
    IF lrsp.raises THEN [raised |-> TRUE, ids |-> << >>]
    ELSE IF lrsp.status_code # 200 THEN [raised |-> FALSE, ids |-> << >>]
    ELSE IF ~lrsp.json_ok THEN [raised |-> TRUE, ids |-> << >>]
    ELSE IF ~lrsp.has_data THEN [raised |-> FALSE, ids |-> << >>]
    ELSE [raised |-> FALSE, ids |-> PlatformIds(lrsp.data)]

\* lines 56-63
BritomartQualifies(ids, feed, o, t) ==
    LET entity == feed[o[1]]
        stu    == entity.stop_time_update[o[2]]
    IN  /\ entity.has_trip_update
        /\ StopMatches(ids, stu)
        /\ IsFuture(FromTimestamp(stu.time), t)

\* lines 64-72 (an absent delay reads as the field's default, 0)
BritomartEntry(entity, stu) ==
    [route    |-> entity.route_id,
     headsign |-> HeadsignOf(entity),
     time     |-> FromTimestamp(stu.time),
     delay    |-> stu.delay,
     stop_id  |-> stu.stop_id]

\* lines 44-75: nothing in the function catches an exception
BritomartGetDepartures(ids, rsp, ck) ==
    IF rsp.raises
    THEN PassResult(None, << >>, << >>, << >>, TRUE, "fetch_failed", "traceback")
    ELSE IF rsp.status_code # 200
    THEN PassResult(None, << >>, << >>, << >>, FALSE, "fetch_failed", "realtime_failed")
    ELSE IF ~rsp.decodable
    THEN PassResult(None, << >>, << >>, << >>, TRUE, "decode_failed", "traceback")
    ELSE LET t    == FromTimestamp(ck)
             orig == SelectSeq(EventsFrom(rsp.feed, 1),
                               LAMBDA o : BritomartQualifies(ids, rsp.feed, o, t))
             deps == [n \in 1..Len(orig) |->
                        BritomartEntry(rsp.feed[orig[n][1]],
                                       rsp.feed[orig[n][1]].stop_time_update[orig[n][2]])]
         IN  PassResult(t, deps, orig, Rank(deps, 15), FALSE, "ok", "")

\* lines 83-84
BritomartStatus(delay) ==
    LET mins == FloorDiv(delay, 60)
    IN  IF mins > 0 THEN ToString(mins) \o "m late"
        ELSE IF mins < 0 THEN ToString(-mins) \o "m early"
        ELSE "On time"

\* lines 77-85
BritomartPrintBoard(deps) ==
    [icon   |-> "",
     name   |-> "Central Bus Departure Board: Britomart Hub",
     notice |-> "",
     rows   |-> [i \in 1..Len(deps) |->
                   [route    |-> deps[i].route,
                    headsign |-> Take(deps[i].headsign, 17),
                    time_str |-> StrfHM(deps[i].time),
                    status   |-> BritomartStatus(deps[i].delay)]]]

BritomartLookups ==
    LookupResponses \cup {LookupData(<<Item("B", 0)>>), LookupData(<<Item("C", 0)>>)}

BritomartInit ==
    /\ pc = "starting"
    /\ simulation = FALSE
    /\ stop_ids = << >>
    /\ script_deps = << >>
    /\ locations = LOCATIONS
    /\ init_idx = 0
    /\ location_index = 0
    /\ location = LOCATIONS[2]
    /\ resp = NoRequest
    /\ clock = T0
    /\ seed = 0
    /\ now = None
    /\ emitted = << >>
    /\ origins = << >>
    /\ order = << >>
    /\ departures = << >>
    /\ raised = FALSE
    /\ outcome = "none"
    /\ console = ""
    /\ board = NoBoard

\* lines 88-95: the lookup at start-up and the branch on its result
BritomartFindStops ==
    /\ pc = "starting"
    /\ \E lrsp \in BritomartLookups :
          LET r == BritomartFindBusStopIds(lrsp)
          IN  /\ raised' = r.raised
              /\ stop_ids' = r.ids
              /\ pc' = IF r.raised THEN "crashed"
                       ELSE IF r.ids = << >> THEN "exited"
                       ELSE "polling"
    /\ UNCHANGED <<simulation, location, resp, clock, seed, now, emitted, origins,
                   order, departures, outcome, console, board, locations,
                   init_idx, location_index, script_deps>>

\* line 91: deps = get_departures(stop_ids); an exception ends the script
BritomartPoll ==
    /\ pc = "polling"
    /\ \E rsp \in LoopResponses, ck \in Clocks :
          LET r == BritomartGetDepartures(stop_ids, rsp, ck)
          IN  /\ resp' = rsp
              /\ clock' = ck
              /\ raised' = r.raised
              /\ outcome' = r.outcome
              /\ console' = r.console
              /\ IF r.raised
                 THEN /\ pc' = "crashed"
                      /\ UNCHANGED <<now, emitted, origins, order, departures>>
                 ELSE /\ pc' = "printing"
                      /\ now' = r.now
                      /\ emitted' = r.emitted
                      /\ origins' = r.origins
                      /\ order' = r.order
                      /\ departures' = r.departures
    /\ UNCHANGED <<simulation, location, seed, board, locations, init_idx,
                   location_index, stop_ids, script_deps>>

\* lines 92-93: print_board(deps), then time.sleep(60)
BritomartPrint ==
    /\ pc = "printing"
    /\ board' = BritomartPrintBoard(departures)
    /\ pc' = "polling"
    /\ UNCHANGED <<simulation, location, resp, clock, seed, now, emitted, origins,
                   order, departures, raised, outcome, console, locations,
                   init_idx, location_index, stop_ids, script_deps>>

BritomartNext == BritomartFindStops \/ BritomartPoll \/ BritomartPrint

SpecBritomart == BritomartInit /\ [][BritomartNext]_vars

\* C8: in a running polling loop a cycle whose fetch or decode failed does
\* not end the process: the loop is still running afterwards and goes on to
\* its next poll.
C8_FailedCycleKeepsPolling ==
    outcome \in {"fetch_failed", "decode_failed"} =>
        /\ pc \in {"polling", "printing"}
        /\ ENABLED BritomartNext

-----------------------------------------------------------------------------
(* Symmetry of the delay classification                                    *)

\* C11: the classification is symmetric about zero: a row whose delay is d
\* is LATE exactly when a delay of -d is classified EARLY, and ON_TIME
\* exactly when a delay of -d is ON_TIME.
C11_ClassificationSymmetric ==
    pc = "rendered" =>
        \A i \in 1..Len(departures) :
           LET d      == departures[i].delay
               c      == board.rows[i].status.class
               mirror == DelayStatus(-d).class
           IN  /\ c = "LATE" <=> mirror = "EARLY"
               /\ c = "EARLY" <=> mirror = "LATE"
               /\ c = "ON_TIME" <=> mirror = "ON_TIME"

-----------------------------------------------------------------------------
(* RTDB_downtown.py: the stand-alone ferry board, beside the unified pass  *)

\* line 23
FERRY_ROUTE_PREFIXES ==
    <<"BAYS-", "BIRK-", "KPHS-", "KPHM-", "PINE-", "RAK-", "RANG-", "TIRI-",
      "WSTH-", "MTIA-", "HMB-">>

\* line 60 without the filter (the stand-alone bus board's version)
DowntownRouteUnfiltered(route_id) == TRUE
\* line 60: any(route_id.startswith(prefix) for prefix in FERRY_ROUTE_PREFIXES)
DowntownRouteAllowed(route_id) ==
    \E i \in 1..Len(FERRY_ROUTE_PREFIXES) : StartsWith(route_id, FERRY_ROUTE_PREFIXES[i])

\* lines 56-64
DowntownQualifies(ids, feed, o, t) ==
    LET entity == feed[o[1]]
        stu    == entity.stop_time_update[o[2]]
    IN  /\ entity.has_trip_update
        /\ DowntownRouteAllowed(entity.route_id)
        /\ StopMatches(ids, stu)
        /\ IsFuture(FromTimestamp(stu.time), t)

\* lines 65-73 (an absent delay reads as the field's default, 0)
DowntownEntry(entity, stu) ==
    [route    |-> entity.route_id,
     headsign |-> HeadsignOf(entity),
     time     |-> FromTimestamp(stu.time),
     delay    |-> stu.delay,
     stop_id  |-> stu.stop_id]

\* lines 44-76: nothing in the function catches an exception
DowntownGetDepartures(ids, rsp, ck) ==
    IF rsp.raises
    THEN PassResult(None, << >>, << >>, << >>, TRUE, "fetch_failed", "traceback")
    ELSE IF rsp.status_code # 200
    THEN PassResult(None, << >>, << >>, << >>, FALSE, "fetch_failed", "realtime_failed")
    ELSE IF ~rsp.decodable
    THEN PassResult(None, << >>, << >>, << >>, TRUE, "decode_failed", "traceback")
    ELSE LET t    == FromTimestamp(ck)
             orig == SelectSeq(EventsFrom(rsp.feed, 1),
                               LAMBDA o : DowntownQualifies(ids, rsp.feed, o, t))
             deps == [n \in 1..Len(orig) |->
                        DowntownEntry(rsp.feed[orig[n][1]],
                                      rsp.feed[orig[n][1]].stop_time_update[orig[n][2]])]
         IN  PassResult(t, deps, orig, Rank(deps, 15), FALSE, "ok", "")

\* ferry feeds with more qualifying departures than either board keeps
FerryLens == {MAX_DEPARTURES + LongExtra, 15 + LongExtra}

FerryStu(p, i, n) ==
    IF p = 5
    THEN Stu(IF i % 3 = 0 THEN "B" ELSE "A", T0 + 60 * (2 + ((i * 7) % n)))
    ELSE StuDelayed(IF i % 2 = 1 THEN "A" ELSE "B",
                    IF p = 1 THEN T0 + 60 * (n + 2 - i) ELSE LongTime(p, i), i * 20)

FerryRoute(i) == IF i % 4 = 0 THEN "64-X" ELSE IF i % 2 = 0 THEN "PINE-2" ELSE "BAYS-1"

FerryLongFeeds ==
    {<<Trip("BAYS-1", "Bayswater", [i \in 1..n |-> FerryStu(p, i, n)])>> :
        p \in 1..5, n \in FerryLens}
        \cup {[i \in 1..(n + 4) |-> Trip(FerryRoute(i), "", <<FerryStu(p, i, n + 4)>>)] :
                p \in 1..5, n \in FerryLens}

FerryResponses ==
    {HttpError(500)} \cup {Decoded(f) : f \in Feeds \cup FerryLongFeeds}

\* both programs configured for the Downtown Ferry Terminal, given the same
\* resolved stops, the same exchange and the same clock
FerryInit ==
    /\ pc = "ready"
    /\ simulation = FALSE
    /\ \E ids \in {<<"A">>, <<"A", "B">>} :
          /\ location = WithStops(LOCATIONS[3], ids)
          /\ stop_ids = ids
    /\ clock \in Clocks
    /\ resp \in FerryResponses
    /\ seed = 0
    /\ now = None
    /\ emitted = << >>
    /\ origins = << >>
    /\ order = << >>
    /\ departures = << >>
    /\ raised = FALSE
    /\ outcome = "none"
    /\ console = ""
    /\ board = NoBoard
    /\ locations = LOCATIONS
    /\ init_idx = 0
    /\ location_index = 0
    /\ script_deps = << >>

\* RTDB_downtown.py line 92: deps = get_departures(stop_ids)
DowntownPoll ==
    /\ pc = "returned"
    /\ LET r == DowntownGetDepartures(stop_ids, resp, clock)
       IN  /\ ~r.raised
           /\ script_deps' = r.departures
    /\ pc' = "compared"
    /\ UNCHANGED <<simulation, location, resp, clock, seed, now, emitted, origins,
                   order, departures, raised, outcome, console, board, locations,
                   init_idx, location_index, stop_ids>>

FerryNext == GetDepartures \/ DowntownPoll

SpecFerry == FerryInit /\ [][FerryNext]_vars

\* the fields the two programs' entries have in common
Common(dep) ==
    [route |-> dep.route, headsign |-> dep.headsign, time |-> dep.time,
     delay |-> dep.delay, stop_id |-> dep.stop_id]

\* C12: for the same decoded feed, 'now' and stop list, the unified
\* get_departures for the Downtown Ferry location returns the first
\* MAX_DEPARTURES entries of what RTDB_downtown.get_departures returns (it
\* keeps 15), position by position equal in route, headsign, time, delay and
\* stop_id.
C12_UnifiedIsPrefixOfFerryScript ==
    pc = "compared" =>
        /\ Len(script_deps) <= 15
        /\ Len(departures) = Min(MAX_DEPARTURES, Len(script_deps))
        /\ \A i \in 1..Len(departures) :
              /\ departures[i].route = script_deps[i].route
              /\ departures[i].headsign = script_deps[i].headsign
              /\ departures[i].time = script_deps[i].time
              /\ departures[i].delay = script_deps[i].delay
              /\ departures[i].stop_id = script_deps[i].stop_id
        /\ [i \in 1..Len(departures) |-> Common(departures[i])]
              = Take(script_deps, MAX_DEPARTURES)

C12_Witness ==
    /\ pc = "compared"
    /\ outcome = "ok"
    /\ Len(resp.feed) > 15
    /\ Len(script_deps) = 15
    /\ Len(departures) = MAX_DEPARTURES
    /\ \E i \in 1..Len(order) : order[i] # i
    /\ \E e \in 1..Len(resp.feed) : resp.feed[e].route_id = "64-X"
    /\ \E i \in 1..Len(departures) : departures[i].headsign = "N/A"

=============================================================================
